---- MODULE Spec2Model ----
(***************************************************************************)
(* Persistent (copy-on-write) AVL tree of gobwas/avl.                      *)
(*                                                                         *)
(* Nodes live in a heap: a sequence of node records, a node reference is   *)
(* an index into it and Nil is the nil pointer.  Every operation of the    *)
(* node layer takes the heap and returns the heap it leaves behind, so     *)
(* allocation, field writes and sharing are those of the Go code.          *)
(***************************************************************************)
EXTENDS Integers, Sequences, FiniteSets, TLC

\* ------------------------------------------------------------------ bounds

\* Keys stored by Insert/Update/Delete are 1..MaxKey.
MaxKey == 5
\* Keys used by the specification that retains an earlier Tree value.
PersistKey == 3
\* Keys 1..VarKey may be stored with either payload, the others with "a".
VarKey == 2
\* Keys used where a reader runs step by step beside a writer.
RaceKey == 3
\* Keys used by the writers that publish their trees.
PubKey == 2

Payloads == {"a", "b"}

\* ------------------------------------------------------------------- items

\* An Item is a <<key, payload>> pair; None is the nil Item.
None == <<>>
Nil == 0

Keys == 1..MaxKey
Items == {x \in Keys \X Payloads : x[2] = "a" \/ x[1] <= VarKey}
\* Delete looks its argument up by key alone.
DeleteItems == Keys \X {"a"}
PersistItems == {x \in Items : x[1] <= PersistKey}
PersistDeleteItems == {x \in DeleteItems : x[1] <= PersistKey}
\* Lookup items may lie outside the stored keys on both sides.
LookupItems == (0..(MaxKey + 1)) \X {"a"}

\* IntItem.Compare: the difference of the keys.
Compare(a, b) == a[1] - b[1]

max(a, b) == IF a > b THEN a ELSE b

\* ------------------------------------------------------------------- heap

\* H = [mem: the nodes; panic: whether rebalance reached its fatal branch;
\*      skewed: whether rebalance returned a node whose balance factor is
\*      outside -1..1;
\*      log: the stores to memory in program order, <<n, f, v>> for the
\*      assignment n.f = v and f = "new" for the allocation of n with
\*      contents v].

\* &node{value: x, h: h} and new(node): a fresh node at the next address.
newNode(H, x, hh) ==
    LET rec == [value |-> x, left |-> Nil, right |-> Nil, h |-> hh] IN
    [heap |-> [H EXCEPT !.mem = Append(@, rec),
                        !.log = Append(@, <<Len(H.mem) + 1, "new", rec>>)],
     ref |-> Len(H.mem) + 1]

setValue(H, n, v) ==
    [H EXCEPT !.mem[n].value = v, !.log = Append(@, <<n, "value", v>>)]
setLeft(H, n, m) ==
    [H EXCEPT !.mem[n].left = m, !.log = Append(@, <<n, "left", m>>)]
setRight(H, n, m) ==
    [H EXCEPT !.mem[n].right = m, !.log = Append(@, <<n, "right", m>>)]
setH(H, n, hh) ==
    [H EXCEPT !.mem[n].h = hh, !.log = Append(@, <<n, "h", hh>>)]

\* clone that hands back n itself.
cloneIsSame(H, n) == [heap |-> H, ref |-> n]

\* node.clone: a copy of *n at a fresh address; nil stays nil.
clone(H, n) ==
    IF n = Nil THEN [heap |-> H, ref |-> Nil]
    ELSE [heap |-> [H EXCEPT !.mem = Append(@, H.mem[n]),
                             !.log = Append(@, <<Len(H.mem) + 1, "new",
                                                 H.mem[n]>>)],
          ref |-> Len(H.mem) + 1]

height(H, n) == IF n = Nil THEN 0 ELSE H.mem[n].h

adjustHeight(H, n) ==
    setH(H, n, max(height(H, H.mem[n].left), height(H, H.mem[n].right)) + 1)

balance(H, n) ==
    IF n = Nil THEN 0
    ELSE height(H, H.mem[n].right) - height(H, H.mem[n].left)

rotateRight(H, n) ==
    LET r    == clone(H, H.mem[n].left)
        c    == clone(r.heap, n)
        root == r.ref
        node == c.ref
        H1   == setLeft(c.heap, node, c.heap.mem[root].right)
        H2   == setRight(H1, root, node)
        H3   == adjustHeight(H2, node)
        H4   == adjustHeight(H3, root)
    IN  [heap |-> H4, ref |-> root]

\* rotateLeft without node.right = root.left.
rotateLeftKeepsRight(H, n) ==
    LET r    == clone(H, H.mem[n].right)
        c    == clone(r.heap, n)
        root == r.ref
        node == c.ref
        H2   == setLeft(c.heap, root, node)
        H3   == adjustHeight(H2, node)
        H4   == adjustHeight(H3, root)
    IN  [heap |-> H4, ref |-> root]

rotateLeft(H, n) ==
    LET r    == clone(H, H.mem[n].right)
        c    == clone(r.heap, n)
        root == r.ref
        node == c.ref
        H1   == setRight(c.heap, node, c.heap.mem[root].left)
        H2   == setLeft(H1, root, node)
        H3   == adjustHeight(H2, node)
        H4   == adjustHeight(H3, root)
    IN  [heap |-> H4, ref |-> root]

\* The end of rebalance: the node it returns is noted when it is skewed.
returned(r) ==
    IF balance(r.heap, r.ref) \in -1..1 THEN r
    ELSE [r EXCEPT !.heap.skewed = TRUE]

\* rebalance with the two single rotations only.
rebalanceSingleOnly(H, n) ==
    LET b == balance(H, n) IN
    returned(
    IF b < -1 THEN rotateRight(H, n)
    ELSE IF b > 1 THEN rotateLeft(H, n)
    ELSE [heap |-> H, ref |-> n])

\* rebalance whose single rotations want a child leaning the same way.
rebalanceStrict(H, n) ==
    LET b == balance(H, n) IN
    returned(
    IF b < -1 /\ balance(H, H.mem[n].left) < 0 THEN rotateRight(H, n)
    ELSE IF b > 1 /\ balance(H, H.mem[n].right) > 0 THEN rotateLeft(H, n)
    ELSE IF b < -1 /\ balance(H, H.mem[n].left) > 0 THEN
        LET c  == clone(H, n)
            r  == rotateLeft(c.heap, c.heap.mem[c.ref].left)
            H1 == setLeft(r.heap, c.ref, r.ref)
        IN  rotateRight(H1, c.ref)
    ELSE IF b > 1 /\ balance(H, H.mem[n].right) < 0 THEN
        LET c  == clone(H, n)
            r  == rotateRight(c.heap, c.heap.mem[c.ref].right)
            H1 == setRight(r.heap, c.ref, r.ref)
        IN  rotateLeft(H1, c.ref)
    ELSE IF b > 1 \/ b < -1 THEN
        [heap |-> [H EXCEPT !.panic = TRUE], ref |-> n]
    ELSE [heap |-> H, ref |-> n])

rebalance(H, n) ==
    LET b == balance(H, n) IN
    returned(
    IF b < -1 /\ balance(H, H.mem[n].left) <= 0 THEN rotateRight(H, n)
    ELSE IF b > 1 /\ balance(H, H.mem[n].right) >= 0 THEN rotateLeft(H, n)
    ELSE IF b < -1 /\ balance(H, H.mem[n].left) > 0 THEN
        LET c  == clone(H, n)
            r  == rotateLeft(c.heap, c.heap.mem[c.ref].left)
            H1 == setLeft(r.heap, c.ref, r.ref)
        IN  rotateRight(H1, c.ref)
    ELSE IF b > 1 /\ balance(H, H.mem[n].right) < 0 THEN
        LET c  == clone(H, n)
            r  == rotateRight(c.heap, c.heap.mem[c.ref].right)
            H1 == setRight(r.heap, c.ref, r.ref)
        IN  rotateLeft(H1, c.ref)
    ELSE IF b > 1 \/ b < -1 THEN
        [heap |-> [H EXCEPT !.panic = TRUE], ref |-> n]
    ELSE [heap |-> H, ref |-> n])

\* --------------------------------------------------------------- lookups

RECURSIVE Size(_, _)
Size(H, n) ==
    IF n = Nil THEN 0
    ELSE 1 + Size(H, H.mem[n].left) + Size(H, H.mem[n].right)

RECURSIVE Max(_, _)
Max(H, n) ==
    IF n = Nil THEN None
    ELSE IF H.mem[n].right # Nil THEN Max(H, H.mem[n].right)
    ELSE H.mem[n].value

RECURSIVE Min(_, _)
Min(H, n) ==
    IF n = Nil THEN None
    ELSE IF H.mem[n].left # Nil THEN Min(H, H.mem[n].left)
    ELSE H.mem[n].value

RECURSIVE Search(_, _, _)
Search(H, n, x) ==
    IF n = Nil THEN None
    ELSE LET cmp == Compare(x, H.mem[n].value) IN
         IF cmp < 0 THEN Search(H, H.mem[n].left, x)
         ELSE IF cmp > 0 THEN Search(H, H.mem[n].right, x)
         ELSE H.mem[n].value

RECURSIVE Predcessor(_, _, _)
Predcessor(H, n, x) ==
    IF n = Nil THEN None
    ELSE LET cmp == Compare(x, H.mem[n].value) IN
         IF cmp < 0 THEN Predcessor(H, H.mem[n].left, x)
         ELSE IF cmp > 0 THEN
             LET p == Predcessor(H, H.mem[n].right, x) IN
             IF p = None THEN H.mem[n].value ELSE p
         ELSE Max(H, H.mem[n].left)

RECURSIVE Successor(_, _, _)
Successor(H, n, x) ==
    IF n = Nil THEN None
    ELSE LET cmp == Compare(x, H.mem[n].value) IN
         IF cmp < 0 THEN
             LET s == Successor(H, H.mem[n].left, x) IN
             IF s = None THEN H.mem[n].value ELSE s
         ELSE IF cmp > 0 THEN Successor(H, H.mem[n].right, x)
         ELSE Min(H, H.mem[n].right)

\* ------------------------------------------------------------ traversals

\* The visitor: v.calls are the items fn has been called with, and fn
\* returns false exactly on an item whose key is v.stop.
NewVisitor(stop) == [calls |-> <<>>, stop |-> stop]
fnCall(v, x) == [v EXCEPT !.calls = Append(@, x)]
fnResult(v, x) == x[1] # v.stop

\* The code calls fn(n.value) as a statement: its result is discarded.
RECURSIVE InOrder(_, _, _)
InOrder(H, n, v) ==
    IF n = Nil THEN v
    ELSE InOrder(H, H.mem[n].right,
                 fnCall(InOrder(H, H.mem[n].left, v), H.mem[n].value))

RECURSIVE PreOrder(_, _, _)
PreOrder(H, n, v) ==
    IF n = Nil THEN v
    ELSE PreOrder(H, H.mem[n].right,
                  PreOrder(H, H.mem[n].left, fnCall(v, H.mem[n].value)))

RECURSIVE PostOrder(_, _, _)
PostOrder(H, n, v) ==
    IF n = Nil THEN v
    ELSE fnCall(PostOrder(H, H.mem[n].right,
                          PostOrder(H, H.mem[n].left, v)), H.mem[n].value)

\* ---------------------------------------------------- modifying operations

\* Insert, Update and Delete return [heap, root, existing]: the heap left
\* behind, the root of the resulting subtree and the Item result.

\* node.Insert and node.Update are one recursive operator, since Update
\* descends into its right child with Insert: put(H, n, x, FALSE) is
\* n.Insert(x) and put(H, n, x, TRUE) is n.Update(x).
RECURSIVE put(_, _, _, _)
put(H, n, x, update) ==
    IF n = Nil THEN
        LET a == newNode(H, x, 1) IN
        [heap |-> a.heap, root |-> a.ref, existing |-> None]
    ELSE IF ~update THEN
        \* node.Insert
        LET cmp == Compare(x, H.mem[n].value) IN
        IF cmp = 0 THEN
            [heap |-> H, root |-> n, existing |-> H.mem[n].value]
        ELSE
            LET r == IF cmp < 0 THEN put(H, H.mem[n].left, x, FALSE)
                     ELSE put(H, H.mem[n].right, x, FALSE)
            IN
            IF r.existing # None THEN
                \* x is not inserted.
                [heap |-> r.heap, root |-> n, existing |-> r.existing]
            ELSE
                LET c  == clone(r.heap, n)
                    H1 == IF cmp < 0 THEN setLeft(c.heap, c.ref, r.root)
                          ELSE setRight(c.heap, c.ref, r.root)
                    H2 == adjustHeight(H1, c.ref)
                    b  == rebalance(H2, c.ref)
                IN  [heap |-> b.heap, root |-> b.ref, existing |-> None]
    ELSE
        \* node.Update: n is cloned before the descent, the right branch
        \* descends with Insert, and s = [heap, prev] after the switch;
        \* the final return hands back nil in place of prev.
        LET c   == clone(H, n)
            cmp == Compare(x, H.mem[n].value)
            s   == IF cmp < 0 THEN
                       LET r == put(c.heap, H.mem[n].left, x, TRUE) IN
                       [heap |-> setLeft(r.heap, c.ref, r.root),
                        prev |-> r.existing]
                   ELSE IF cmp > 0 THEN
                       LET r == put(c.heap, H.mem[n].right, x, FALSE) IN
                       [heap |-> setRight(r.heap, c.ref, r.root),
                        prev |-> r.existing]
                   ELSE [heap |-> setValue(c.heap, c.ref, x),
                         prev |-> c.heap.mem[c.ref].value]
            H2  == adjustHeight(s.heap, c.ref)
            b   == rebalance(H2, c.ref)
        IN  [heap |-> b.heap, root |-> b.ref, existing |-> None]

Insert(H, n, x) == put(H, n, x, FALSE)

Update(H, n, x) == put(H, n, x, TRUE)

RECURSIVE Delete(_, _, _)
RECURSIVE destroy(_, _)

\* destroy that overwrites n where the code builds a new node.
destroyInPlace(H, n) ==
    IF H.mem[n].left # Nil /\ H.mem[n].right # Nil THEN
        LET m  == Max(H, H.mem[n].left)
            H1 == setValue(H, n, m)
            d  == Delete(H1, H.mem[n].left, m)
            H2 == setLeft(d.heap, n, d.root)
        IN  [heap |-> H2, ref |-> n]
    ELSE IF H.mem[n].left # Nil THEN [heap |-> H, ref |-> H.mem[n].left]
    ELSE IF H.mem[n].right # Nil THEN [heap |-> H, ref |-> H.mem[n].right]
    ELSE [heap |-> H, ref |-> Nil]

\* destroy without root.right = n.right.
destroyForgetsRight(H, n) ==
    IF H.mem[n].left # Nil /\ H.mem[n].right # Nil THEN
        LET m  == Max(H, H.mem[n].left)
            a  == newNode(H, None, 0)
            H1 == setValue(a.heap, a.ref, m)
            d  == Delete(H1, H.mem[n].left, m)
            H2 == setLeft(d.heap, a.ref, d.root)
        IN  [heap |-> H2, ref |-> a.ref]
    ELSE IF H.mem[n].left # Nil THEN [heap |-> H, ref |-> H.mem[n].left]
    ELSE IF H.mem[n].right # Nil THEN [heap |-> H, ref |-> H.mem[n].right]
    ELSE [heap |-> H, ref |-> Nil]

\* destroy returns [heap, ref]: the subtree that takes n's place.
destroy(H, n) ==
    IF H.mem[n].left # Nil /\ H.mem[n].right # Nil THEN
        LET m  == Max(H, H.mem[n].left)
            a  == newNode(H, None, 0)
            H1 == setValue(a.heap, a.ref, m)
            d  == Delete(H1, H.mem[n].left, m)
            H2 == setLeft(d.heap, a.ref, d.root)
            H3 == setRight(H2, a.ref, H.mem[n].right)
        IN  [heap |-> H3, ref |-> a.ref]
    ELSE IF H.mem[n].left # Nil THEN [heap |-> H, ref |-> H.mem[n].left]
    ELSE IF H.mem[n].right # Nil THEN [heap |-> H, ref |-> H.mem[n].right]
    ELSE [heap |-> H, ref |-> Nil]

\* Delete that clones the node before it descends, found or not.
DeleteClonesFirst(H, n, x) ==
    IF n = Nil THEN [heap |-> H, root |-> Nil, existing |-> None]
    ELSE
        LET cmp == Compare(x, H.mem[n].value) IN
        IF cmp = 0 THEN
            LET d == destroy(H, n) IN
            IF d.ref = Nil
            THEN [heap |-> d.heap, root |-> Nil, existing |-> H.mem[n].value]
            ELSE LET b == rebalance(adjustHeight(d.heap, d.ref), d.ref) IN
                 [heap |-> b.heap, root |-> b.ref,
                  existing |-> H.mem[n].value]
        ELSE
            LET c  == clone(H, n)
                r  == IF cmp < 0 THEN Delete(c.heap, H.mem[n].left, x)
                      ELSE Delete(c.heap, H.mem[n].right, x)
                H1 == IF cmp < 0 THEN setLeft(r.heap, c.ref, r.root)
                      ELSE setRight(r.heap, c.ref, r.root)
                b  == rebalance(adjustHeight(H1, c.ref), c.ref)
            IN  [heap |-> b.heap, root |-> b.ref, existing |-> r.existing]

Delete(H, n, x) ==
    IF n = Nil THEN [heap |-> H, root |-> Nil, existing |-> None]
    ELSE
        LET cmp == Compare(x, H.mem[n].value)
            \* s = [heap, root, existing] after the switch; root is Nil
            \* where the code leaves root unassigned.
            s == IF cmp = 0 THEN
                     LET d == destroy(H, n) IN
                     [heap |-> d.heap, root |-> d.ref,
                      existing |-> H.mem[n].value]
                 ELSE
                     LET r == IF cmp < 0 THEN Delete(H, H.mem[n].left, x)
                              ELSE Delete(H, H.mem[n].right, x)
                     IN
                     IF r.existing = None THEN
                         [heap |-> r.heap, root |-> Nil, existing |-> None]
                     ELSE
                         LET c == clone(r.heap, n) IN
                         [heap |-> IF cmp < 0
                                   THEN setLeft(c.heap, c.ref, r.root)
                                   ELSE setRight(c.heap, c.ref, r.root),
                          root |-> c.ref, existing |-> r.existing]
        IN
        IF s.existing = None THEN
            \* x is not present in n.
            [heap |-> s.heap, root |-> n, existing |-> None]
        ELSE IF s.root = Nil THEN
            \* x was the last element of n.
            [heap |-> s.heap, root |-> Nil, existing |-> s.existing]
        ELSE
            LET H1 == adjustHeight(s.heap, s.root)
                b  == rebalance(H1, s.root)
            IN  [heap |-> b.heap, root |-> b.ref, existing |-> s.existing]

\* ------------------------------------------------------------------- Tree

\* A Tree value is [root, size]; the zero Tree is the empty tree.
ZeroTree == [root |-> Nil, size |-> 0]

TreeSize(t) == t.size

\* The modifying methods return [heap, tree, existing].
\* Tree.Insert that counts a refused insertion too.
TreeInsertAlwaysCounts(H, t, x) ==
    LET r == Insert(H, t.root, x) IN
    [heap |-> r.heap, tree |-> [root |-> r.root, size |-> t.size + 1],
     existing |-> r.existing]

TreeInsert(H, t, x) ==
    LET r == Insert(H, t.root, x) IN
    [heap |-> r.heap,
     tree |-> [root |-> r.root,
               size |-> IF r.existing = None THEN t.size + 1 ELSE t.size],
     existing |-> r.existing]

TreeUpdate(H, t, x) ==
    LET r == Update(H, t.root, x) IN
    [heap |-> r.heap,
     tree |-> [root |-> r.root,
               size |-> IF r.existing = None THEN t.size + 1 ELSE t.size],
     existing |-> r.existing]

TreeDelete(H, t, x) ==
    LET r == Delete(H, t.root, x) IN
    [heap |-> r.heap,
     tree |-> [root |-> r.root,
               size |-> IF r.existing # None THEN t.size - 1 ELSE t.size],
     existing |-> r.existing]

TreeMax(H, t) == Max(H, t.root)
TreeMin(H, t) == Min(H, t.root)
TreeSearch(H, t, x) == Search(H, t.root, x)
\* tree.go:75 is `return t.root.Predecessor(x)`; the node layer has no
\* method of that name (its method is spelled Predcessor), so the call does
\* not resolve: Tree.Predecessor is not built and yields no Item, not even
\* the empty one.
Undefined == <<"undefined">>
TreePredecessor(H, t, x) == Undefined
TreeSuccessor(H, t, x) == Successor(H, t.root, x)
TreeInOrder(H, t, v) == InOrder(H, t.root, v)
TreePreOrder(H, t, v) == PreOrder(H, t.root, v)
TreePostOrder(H, t, v) == PostOrder(H, t.root, v)

\* ---------------------------------------------------------- state machine

VARIABLES
    heap,     \* the nodes reachable from a Tree value the program holds
    tree,     \* the Tree value the caller keeps updating
    held,     \* an earlier Tree value the caller still holds (t := tree)
    heldObs,  \* what held showed when it was taken
    refKeys,  \* reference set of keys, kept beside the tree
    last,     \* the last call: its arguments, result and effects
    writer,   \* a modifying call in progress, store by store
    reader,   \* a read-only call in progress, load by load
    writers,  \* the writer goroutines that publish to tree, their locals
    second    \* the second mutex that serializes whole updates, if used

vars == <<heap, tree, held, heldObs, refKeys, last, writer, reader,
          writers, second>>

Range(f) == {f[i] : i \in DOMAIN f}

\* The items a full traversal visits (a visitor that never returns false).
InOrderItems(H, t) == TreeInOrder(H, t, NewVisitor(0)).calls
PreOrderItems(H, t) == TreePreOrder(H, t, NewVisitor(0)).calls
PostOrderItems(H, t) == TreePostOrder(H, t, NewVisitor(0)).calls

AsHeap(mem) == [mem |-> mem, panic |-> FALSE, skewed |-> FALSE, log |-> <<>>]

\* The <<node, field>> pairs a log assigns.
Written(log) ==
    {<<log[i][1], log[i][2]>> : i \in {j \in DOMAIN log : log[j][2] # "new"}}

\* Everything an observer can learn from a Tree value.
Observe(H, t) ==
    [inOrder   |-> InOrderItems(H, t),
     preOrder  |-> PreOrderItems(H, t),
     postOrder |-> PostOrderItems(H, t),
     size      |-> TreeSize(t),
     min       |-> TreeMin(H, t),
     max       |-> TreeMax(H, t),
     search    |-> [x \in LookupItems |-> TreeSearch(H, t, x)]]

\* Nodes no held Tree value reaches are garbage; the live ones are listed
\* root first (tree, then held), and addresses are renamed to the position
\* in that list.  Go gives no meaning to an address beyond identity.
RECURSIVE Reach(_, _, _)
Reach(mem, n, seen) ==
    IF n = Nil \/ n \in Range(seen) THEN seen
    ELSE Reach(mem, mem[n].right, Reach(mem, mem[n].left, Append(seen, n)))

Pos(order, n) ==
    IF n = Nil THEN Nil ELSE CHOOSE i \in 1..Len(order) : order[i] = n

Live(mem, t, h) == Reach(mem, h.root, Reach(mem, t.root, <<>>))

Collect(mem, order) ==
    [i \in 1..Len(order) |->
        [mem[order[i]] EXCEPT !.left = Pos(order, @),
                              !.right = Pos(order, @)]]

NoCall == [op |-> "none", x |-> None, ret |-> None, pre |-> <<>>,
           preSize |-> 0, preRef |-> {}, sameRoot |-> TRUE, allocs |-> 0, dirty |-> {},
           panic |-> FALSE, skewed |-> FALSE, calls |-> <<>>, stop |-> 0,
           undoes |-> FALSE, before |-> <<>>, beforeSize |-> 0,
           hist |-> <<>>, preShape |-> <<>>]

\* No call in progress.
NoWriter == [op |-> "none", x |-> None, base |-> <<>>, log |-> <<>>,
             next |-> 1, t |-> ZeroTree]
NoReader == [op |-> "none", x |-> None, stack |-> <<>>, ret |-> None,
             calls |-> <<>>, done |-> FALSE, reads |-> {},
             expect |-> [ret |-> None, calls |-> <<>>]]

\* A writer goroutine at the top of its loop.
Writers == {1, 2}
AtStart == [pc |-> "start", t |-> ZeroTree, base |-> ZeroTree,
            baseShape |-> <<>>, x |-> 0, y |-> 0]

Init ==
    /\ heap = <<>>
    /\ tree = ZeroTree
    /\ held = ZeroTree
    /\ heldObs = Observe(AsHeap(<<>>), ZeroTree)
    /\ refKeys = {}
    /\ last = NoCall
    /\ writer = NoWriter
    /\ reader = NoReader
    /\ writers = [w \in Writers |-> AtStart]
    /\ second = [used |-> FALSE, holder |-> 0]

\* The common end of a modifying call whose result is r = [heap, tree,
\* existing]: the caller stores the returned Tree (tree, _ = tree.Op(x)).
\* With record = FALSE only the name of the call is kept in last.
\* undoes: this call is t.Delete(k) right after the t.Insert(k) that added
\* k; before and beforeSize are then the contents and Size() of the tree
\* that Insert was called on.
Store(op, x, r, record) ==
    LET order == Live(r.heap.mem, r.tree, held)
        undoes == /\ op = "Delete" /\ last.op = "Insert"
                  /\ last.ret = None /\ Compare(x, last.x) = 0
    IN
    /\ heap' = Collect(r.heap.mem, order)
    /\ tree' = [root |-> Pos(order, r.tree.root), size |-> r.tree.size]
    /\ held' = [held EXCEPT !.root = Pos(order, @)]
    /\ last' = IF ~record THEN [NoCall EXCEPT !.op = "unrecorded"] ELSE
               [NoCall EXCEPT
                  !.op = op, !.x = x, !.ret = r.existing,
                  !.pre = InOrderItems(AsHeap(heap), tree),
                  !.preSize = TreeSize(tree),
                  !.preRef = refKeys,
                  !.sameRoot = (r.tree.root = tree.root),
                  !.allocs = Len(r.heap.mem) - Len(heap),
                  !.dirty = {w \in Written(r.heap.log) : w[1] <= Len(heap)},
                  !.panic = r.heap.panic,
                  !.skewed = r.heap.skewed,
                  !.undoes = undoes,
                  !.before = IF undoes THEN last.pre ELSE <<>>,
                  !.beforeSize = IF undoes THEN last.preSize ELSE 0]
    /\ UNCHANGED <<heldObs, writer, reader, writers, second>>

CallInsert(x, cap, record) ==
    /\ TreeSize(tree) < cap
    /\ Store("Insert", x, TreeInsert(AsHeap(heap), tree, x), record)
    /\ refKeys' = refKeys \cup {x[1]}

CallUpdate(x, cap, record) ==
    /\ TreeSize(tree) < cap
    /\ Store("Update", x, TreeUpdate(AsHeap(heap), tree, x), record)
    /\ refKeys' = refKeys \cup {x[1]}

CallDelete(x, record) ==
    /\ Store("Delete", x, TreeDelete(AsHeap(heap), tree, x), record)
    /\ refKeys' = refKeys \ {x[1]}

\* t := tree: the caller keeps the current Tree value.
Hold ==
    /\ held' = tree
    /\ heldObs' = Observe(AsHeap(heap), tree)
    /\ LET order == Live(heap, tree, tree) IN
       /\ heap' = Collect(heap, order)
       /\ tree' = [tree EXCEPT !.root = Pos(order, @)]
    /\ last' = [NoCall EXCEPT !.op = "unrecorded"]
    /\ UNCHANGED <<refKeys, writer, reader, writers, second>>

\* A read-only call: only its result is recorded.
Answer(op, x, ret) ==
    /\ last' = [NoCall EXCEPT !.op = op, !.x = x, !.ret = ret,
                              !.pre = InOrderItems(AsHeap(heap), tree),
                              !.preSize = TreeSize(tree),
                              !.preRef = refKeys]
    /\ UNCHANGED <<heap, tree, held, heldObs, refKeys, writer, reader,
                   writers, second>>

CallSearch(x) == Answer("Search", x, TreeSearch(AsHeap(heap), tree, x))
CallMin == Answer("Min", None, TreeMin(AsHeap(heap), tree))
CallMax == Answer("Max", None, TreeMax(AsHeap(heap), tree))
CallPredecessor(x) ==
    Answer("Predecessor", x, TreePredecessor(AsHeap(heap), tree, x))
CallSuccessor(x) ==
    Answer("Successor", x, TreeSuccessor(AsHeap(heap), tree, x))

\* A traversal with a visitor that returns false on key stop.
Visited(op, v) ==
    /\ last' = [NoCall EXCEPT !.op = op, !.calls = v.calls, !.stop = v.stop,
                              !.pre = InOrderItems(AsHeap(heap), tree),
                              !.preSize = TreeSize(tree),
                              !.preRef = refKeys]
    /\ UNCHANGED <<heap, tree, held, heldObs, refKeys, writer, reader,
                   writers, second>>

CallInOrder(stop) ==
    Visited("InOrder", TreeInOrder(AsHeap(heap), tree, NewVisitor(stop)))
CallPreOrder(stop) ==
    Visited("PreOrder", TreePreOrder(AsHeap(heap), tree, NewVisitor(stop)))
CallPostOrder(stop) ==
    Visited("PostOrder", TreePostOrder(AsHeap(heap), tree, NewVisitor(stop)))

SizeCap == MaxKey + 1
PersistCap == PersistKey + 1

Modify ==
    \/ \E x \in Items :
        \/ CallInsert(x, SizeCap, TRUE)
        \/ CallUpdate(x, SizeCap, TRUE)
    \/ \E x \in DeleteItems : CallDelete(x, TRUE)

Lookup ==
    \/ \E x \in LookupItems :
        \/ CallSearch(x)
        \/ CallPredecessor(x)
        \/ CallSuccessor(x)
    \/ CallMin
    \/ CallMax

Traverse ==
    \E stop \in Keys :
        \/ CallInOrder(stop)
        \/ CallPreOrder(stop)
        \/ CallPostOrder(stop)

Next == Modify

Spec == Init /\ [][Next]_vars

\* Insert and Delete beside the reference set, with the read-only calls.
NextRead ==
    \/ \E x \in Items : CallInsert(x, SizeCap, TRUE)
    \/ \E x \in DeleteItems : CallDelete(x, TRUE)
    \/ Lookup
    \/ Traverse

SpecRead == Init /\ [][NextRead]_vars

\* The caller holds on to an earlier Tree value while it keeps modifying.
NextPersist ==
    \/ \E x \in PersistItems :
        \/ CallInsert(x, PersistCap, FALSE)
        \/ CallUpdate(x, PersistCap, FALSE)
    \/ \E x \in PersistDeleteItems : CallDelete(x, FALSE)
    \/ Hold

SpecPersist == Init /\ [][NextPersist]_vars

\* ------------------------------------------ a reader beside a writer

\* The read-only methods, one load of a node field per step.  reader.stack
\* holds the calls in progress, innermost first, each [fn, n, pc]:
\*   "test"  Max / Min: load the child on the way, descend or go on to own
\*   "cmp"   Search / Predcessor / Successor: load n.value and compare
\*   "left", "right"  load that child and call on it
\*   "eq"    Predcessor / Successor of a stored key: load the child whose
\*           Max / Min is the answer
\*   "back"  Predcessor / Successor waits for the child's answer
\*   "own"   load n.value and return it
\*   "visit" a traversal loads n.value and calls fn with it
StartPc(fn) ==
    IF fn \in {"Max", "Min"} THEN "test"
    ELSE IF fn \in {"Search", "Predcessor", "Successor"} THEN "cmp"
    ELSE IF fn = "PreOrder" THEN "visit"
    ELSE "left"

Load(rd, n, f) == [rd EXCEPT !.reads = @ \cup {<<n, f>>}]
Goto(rd, pc) == [rd EXCEPT !.stack[1].pc = pc]
Pop(rd) == [rd EXCEPT !.stack = Tail(@)]

\* return v: to the caller waiting on top of the stack, or out of the call.
RECURSIVE Return(_, _)
Return(rd, v) ==
    IF rd.stack = <<>> THEN [rd EXCEPT !.ret = v, !.done = TRUE]
    ELSE IF Head(rd.stack).pc = "back" THEN
        \* p := n.right.Predcessor(x); if p == nil { p = n.value }; return p
        IF v = None THEN Goto(rd, "own") ELSE Return(Pop(rd), v)
    ELSE rd  \* a traversal goes on with its next statement

\* m.fn(...): a nil receiver returns at once.
Call(rd, fn, m) ==
    IF m = Nil THEN Return(rd, None)
    ELSE [rd EXCEPT !.stack = <<[fn |-> fn, n |-> m, pc |-> StartPc(fn)]>>
                                  \o @]

\* return m.fn(...)
TailCall(rd, fn, m) == Call(Pop(rd), fn, m)

ReaderStep(mem, rd) ==
    LET top == Head(rd.stack)
        fn  == top.fn
        n   == top.n
    IN
    CASE top.pc = "test" ->
            LET f == IF fn = "Max" THEN "right" ELSE "left" IN
            IF mem[n][f] # Nil THEN TailCall(Load(rd, n, f), fn, mem[n][f])
            ELSE Goto(Load(rd, n, f), "own")
      [] top.pc = "own" ->
            Return(Pop(Load(rd, n, "value")), mem[n].value)
      [] top.pc = "cmp" ->
            LET cmp == Compare(rd.x, mem[n].value) IN
            Goto(Load(rd, n, "value"),
                 IF cmp < 0 THEN "left"
                 ELSE IF cmp > 0 THEN "right"
                 ELSE IF fn = "Search" THEN "own" ELSE "eq")
      [] top.pc = "left" ->
            LET r == Load(rd, n, "left") IN
            IF fn \in {"Search", "Predcessor"} THEN TailCall(r, fn, mem[n].left)
            ELSE IF fn = "Successor" THEN Call(Goto(r, "back"), fn, mem[n].left)
            ELSE IF fn = "InOrder" THEN Call(Goto(r, "visit"), fn, mem[n].left)
            ELSE Call(Goto(r, "right"), fn, mem[n].left)
      [] top.pc = "right" ->
            LET r == Load(rd, n, "right") IN
            IF fn = "Predcessor" THEN Call(Goto(r, "back"), fn, mem[n].right)
            ELSE IF fn = "PostOrder"
                 THEN Call(Goto(r, "visit"), fn, mem[n].right)
            ELSE TailCall(r, fn, mem[n].right)
      [] top.pc = "eq" ->
            IF fn = "Predcessor"
            THEN TailCall(Load(rd, n, "left"), "Max", mem[n].left)
            ELSE TailCall(Load(rd, n, "right"), "Min", mem[n].right)
      [] top.pc = "visit" ->
            LET r == [Load(rd, n, "value") EXCEPT
                        !.calls = Append(@, mem[n].value)] IN
            IF fn = "InOrder" THEN Goto(r, "right")
            ELSE IF fn = "PreOrder" THEN Goto(r, "left")
            ELSE Return(Pop(r), None)

\* What the call returns, and the items fn is called with, when nothing
\* else runs.  Predcessor is the node method, called on the root.
Alone(H, t, fn, x) ==
    [ret   |-> CASE fn = "Search" -> TreeSearch(H, t, x)
                 [] fn = "Min" -> TreeMin(H, t)
                 [] fn = "Max" -> TreeMax(H, t)
                 [] fn = "Predcessor" -> Predcessor(H, t.root, x)
                 [] fn = "Successor" -> TreeSuccessor(H, t, x)
                 [] OTHER -> None,
     calls |-> CASE fn = "InOrder" -> InOrderItems(H, t)
                 [] fn = "PreOrder" -> PreOrderItems(H, t)
                 [] fn = "PostOrder" -> PostOrderItems(H, t)
                 [] OTHER -> <<>>]

\* One store of the writer reaches memory.
ApplyStore(mem, e) ==
    IF e[2] = "new" THEN Append(mem, e[3])
    ELSE [mem EXCEPT ![e[1]][e[2]] = e[3]]

\* Only the least key is ever stored with the other payload here.
RaceItems == {x \in Items : x[1] <= RaceKey /\ (x[2] = "a" \/ x[1] = 1)}
RaceDeleteItems == {x \in DeleteItems : x[1] <= RaceKey}
RaceLookupItems == (0..(RaceKey + 1)) \X {"a"}
RaceCap == RaceKey + 1

\* The writer goroutine of the package doc, store by store.  One turn of
\* its loop: t := tree under the read lock; a call that adds to the local t
\* (the doc's t.Insert(x); t.Update(x) is the package's other call of that
\* kind); t.Delete(y) on what that call returned; tree = t under the write
\* lock.  writer.log collects the stores of the turn in program order,
\* writer.next is the first that has not reached memory yet, writer.t the
\* local t once the calls in the log are through.

\* mu.RLock(); t := tree; mu.RUnlock()
WriterCopy ==
    /\ writer.op = "none"
    /\ writer' = [NoWriter EXCEPT !.op = "copied", !.base = heap, !.t = tree]
    /\ UNCHANGED <<heap, tree, held, heldObs, refKeys, last, reader,
                   writers, second>>

\* A call on the local t starts: r is what it will have stored and what it
\* returns.
WriterBegin(op, x, r) ==
    /\ writer.next > Len(writer.log)
    /\ writer' = [writer EXCEPT !.op = op, !.x = x, !.t = r.tree,
                                !.log = @ \o r.heap.log]
    /\ UNCHANGED <<heap, tree, held, heldObs, refKeys, last, reader,
                   writers, second>>

\* t, _ = t.Insert(x)
BeginInsert(x) ==
    /\ writer.op = "copied"
    /\ TreeSize(writer.t) < RaceCap
    /\ WriterBegin("Insert", x, TreeInsert(AsHeap(heap), writer.t, x))
BeginUpdate(x) ==
    /\ writer.op = "copied"
    /\ TreeSize(writer.t) < RaceCap
    /\ WriterBegin("Update", x, TreeUpdate(AsHeap(heap), writer.t, x))
\* t, _ = t.Delete(y)
BeginDelete(y) ==
    /\ writer.op \in {"Insert", "Update"}
    /\ WriterBegin("Delete", y, TreeDelete(AsHeap(heap), writer.t, y))

WriterStep ==
    /\ writer.next <= Len(writer.log)
    /\ heap' = ApplyStore(heap, writer.log[writer.next])
    /\ writer' = [writer EXCEPT !.next = @ + 1]
    /\ UNCHANGED <<tree, held, heldObs, refKeys, last, reader, writers,
                   second>>

\* mu.Lock(); tree = t; mu.Unlock(): no reader holds the read lock, so none
\* is left on the old tree.
WriterEnd ==
    /\ writer.op = "Delete"
    /\ writer.next > Len(writer.log)
    /\ reader.op = "none"
    /\ LET order == Live(heap, writer.t, held) IN
       /\ heap' = Collect(heap, order)
       /\ tree' = [writer.t EXCEPT !.root = Pos(order, @)]
       /\ held' = [held EXCEPT !.root = Pos(order, @)]
    /\ writer' = NoWriter
    /\ UNCHANGED <<heldObs, refKeys, last, reader, writers, second>>

\* A reader goroutine starts a read-only call on the current tree.
ReaderBegin(fn, x) ==
    /\ reader.op = "none"
    /\ reader' =
         Call([NoReader EXCEPT
                 !.op = fn, !.x = x,
                 !.expect = Alone(AsHeap(IF writer.op = "none" THEN heap
                                         ELSE writer.base), tree, fn, x)],
              fn, tree.root)
    /\ UNCHANGED <<heap, tree, held, heldObs, refKeys, last, writer,
                   writers, second>>

ReaderLoad ==
    /\ reader.op # "none"
    /\ ~reader.done
    /\ reader' = ReaderStep(heap, reader)
    /\ UNCHANGED <<heap, tree, held, heldObs, refKeys, last, writer,
                   writers, second>>

ReaderEnd ==
    /\ reader.op # "none"
    /\ reader.done
    /\ reader' = NoReader
    /\ UNCHANGED <<heap, tree, held, heldObs, refKeys, last, writer,
                   writers, second>>

NextRace ==
    \/ WriterCopy
    \/ \E x \in RaceItems : BeginInsert(x) \/ BeginUpdate(x)
    \/ \E x \in RaceDeleteItems : BeginDelete(x)
    \/ WriterStep
    \/ WriterEnd
    \/ \E x \in RaceLookupItems :
        \E fn \in {"Search", "Predcessor", "Successor"} : ReaderBegin(fn, x)
    \/ \E fn \in {"Min", "Max", "InOrder", "PreOrder", "PostOrder"} :
        ReaderBegin(fn, None)
    \/ ReaderLoad
    \/ ReaderEnd

SpecRace == Init /\ [][NextRace]_vars

\* ------------------------------------------------- trees built call by call

\* The shape of the subtree at n: <<>> for nil, else <<left, value, right>>.
RECURSIVE Shape(_, _)
Shape(H, n) ==
    IF n = Nil THEN <<>>
    ELSE <<Shape(H, H.mem[n].left), H.mem[n].value, Shape(H, H.mem[n].right)>>

\* The tests build a tree from the empty one by inserting a list of items
\* and then deleting a list of items; last.hist is the list of calls made,
\* <<op, key>> each, and last.preShape the shape the last call started from.
ShapeItems == (0..MaxKey) \X {"a"}

\* The longest build followed: every key can be inserted and one more call
\* made after that, so a five-item tree can lose two of its items.
BuildCap == MaxKey + 2

Built(op, x, r) ==
    LET order == Live(r.heap.mem, r.tree, held) IN
    /\ Len(last.hist) < BuildCap
    /\ heap' = Collect(r.heap.mem, order)
    /\ tree' = [root |-> Pos(order, r.tree.root), size |-> r.tree.size]
    /\ last' = [NoCall EXCEPT
                  !.op = op, !.x = x, !.ret = r.existing,
                  !.pre = InOrderItems(AsHeap(heap), tree),
                  !.preSize = TreeSize(tree),
                  !.allocs = Len(r.heap.mem) - Len(heap),
                  !.panic = r.heap.panic,
                  !.skewed = r.heap.skewed,
                  !.hist = Append(last.hist, <<op, x[1]>>),
                  !.preShape = Shape(AsHeap(heap), tree.root)]
    /\ UNCHANGED <<held, heldObs, refKeys, writer, reader, writers, second>>

\* root, _ = root.Insert(x) for the next item of the insert list.
BuildInsert(x) ==
    /\ \A i \in DOMAIN last.hist : last.hist[i][1] = "Insert"
    /\ TreeSearch(AsHeap(heap), tree, x) = None
    /\ Built("Insert", x, TreeInsert(AsHeap(heap), tree, x))

\* root, _ = root.Delete(x) for the next item of the delete list.
BuildDelete(x) ==
    /\ TreeSearch(AsHeap(heap), tree, x) # None
    /\ Built("Delete", x, TreeDelete(AsHeap(heap), tree, x))

NextBuild == \E x \in ShapeItems : BuildInsert(x) \/ BuildDelete(x)

SpecBuild == Init /\ [][NextBuild]_vars

\* ------------------------------------------------- writers that publish

\* The writer of the package doc: copy the shared tree under the read lock,
\* t.Insert(x), t.Delete(y) on the local copy, store it back under the
\* write lock.  mu makes the copy and the store atomic, each being the one
\* statement of its critical section.  With the second mutex a writer holds
\* it from before the copy until after the store.
PubItems == (1..PubKey) \X {"a"}

RECURSIVE LiveOf(_, _, _)
LiveOf(mem, roots, seen) ==
    IF roots = <<>> THEN seen
    ELSE LiveOf(mem, Tail(roots), Reach(mem, Head(roots), seen))

\* The end of a writer's step: mem, the shared tree and the writers' locals
\* as the step leaves them, garbage dropped and addresses renamed.
Settle(mem, t, ws) ==
    LET order == LiveOf(mem, <<t.root, ws[1].t.root, ws[1].base.root,
                                ws[2].t.root, ws[2].base.root>>, <<>>)
    IN
    /\ heap' = Collect(mem, order)
    /\ tree' = [t EXCEPT !.root = Pos(order, @)]
    /\ writers' = [w \in Writers |->
                     [ws[w] EXCEPT !.t.root = Pos(order, @),
                                   !.base.root = Pos(order, @)]]
    /\ UNCHANGED <<held, heldObs, last, writer, reader>>

\* Enter that does not wait for the second mutex.
EnterAtOnce(w) ==
    /\ writers[w].pc = "start"
    /\ second' = IF second.used THEN [second EXCEPT !.holder = w] ELSE second
    /\ Settle(heap, tree, [writers EXCEPT ![w].pc = "copy"])
    /\ UNCHANGED refKeys

\* The top of the loop; the second mutex is locked here when it is used.
Enter(w) ==
    /\ writers[w].pc = "start"
    /\ second.used => second.holder = 0
    /\ second' = IF second.used THEN [second EXCEPT !.holder = w] ELSE second
    /\ Settle(heap, tree, [writers EXCEPT ![w].pc = "copy"])
    /\ UNCHANGED refKeys

\* mu.RLock(); t := tree; mu.RUnlock()
Copy(w) ==
    /\ writers[w].pc = "copy"
    /\ Settle(heap, tree,
              [writers EXCEPT ![w].pc = "insert", ![w].t = tree,
                              ![w].base = tree,
                              ![w].baseShape = Shape(AsHeap(heap), tree.root)])
    /\ UNCHANGED <<refKeys, second>>

\* A call on the writer's local tree: r is what it returns.
Worked(w, r, pc, x, y) ==
    /\ Settle(r.heap.mem, tree,
              [writers EXCEPT ![w].pc = pc, ![w].t = r.tree,
                              ![w].x = x, ![w].y = y])
    /\ UNCHANGED <<refKeys, second>>

\* t, _ = t.Insert(x)
LocalInsert(w, x) ==
    /\ writers[w].pc = "insert"
    /\ Worked(w, TreeInsert(AsHeap(heap), writers[w].t, x), "delete", x[1], 0)

\* t, _ = t.Delete(y)
LocalDelete(w, y) ==
    /\ writers[w].pc = "delete"
    /\ Worked(w, TreeDelete(AsHeap(heap), writers[w].t, y), "publish",
              writers[w].x, y[1])

\* mu.Lock(); tree = t; mu.Unlock()
Publish(w) ==
    /\ writers[w].pc = "publish"
    /\ Settle(heap, writers[w].t, [writers EXCEPT ![w].pc = "leave"])
    /\ UNCHANGED <<refKeys, second>>

\* The end of the loop body; the second mutex is unlocked when it is used.
Leave(w) ==
    /\ writers[w].pc = "leave"
    /\ second' = IF second.used THEN [second EXCEPT !.holder = 0] ELSE second
    /\ Settle(heap, tree, [writers EXCEPT ![w] = AtStart])
    /\ UNCHANGED refKeys

\* The program uses the second mutex or it does not.
InitPub ==
    /\ heap = <<>>
    /\ tree = ZeroTree
    /\ held = ZeroTree
    /\ heldObs = Observe(AsHeap(<<>>), ZeroTree)
    /\ refKeys = {}
    /\ last = NoCall
    /\ writer = NoWriter
    /\ reader = NoReader
    /\ writers = [w \in Writers |-> AtStart]
    /\ \E used \in BOOLEAN : second = [used |-> used, holder |-> 0]

NextPub ==
    \E w \in Writers :
        \/ Enter(w)
        \/ Copy(w)
        \/ \E x \in PubItems : LocalInsert(w, x) \/ LocalDelete(w, x)
        \/ Publish(w)
        \/ Leave(w)

SpecPub == InitPub /\ [][NextPub]_vars

\* ------------------------------------------------------------ properties

Now == AsHeap(heap)

KeysOf(seq) == {seq[i][1] : i \in DOMAIN seq}

\* The item of seq that compares equal to x, or None.
StoredIn(seq, x) ==
    IF \E i \in DOMAIN seq : Compare(x, seq[i]) = 0
    THEN seq[CHOOSE i \in DOMAIN seq : Compare(x, seq[i]) = 0]
    ELSE None

StrictlyAscending(seq) ==
    \A i \in 1..(Len(seq) - 1) : Compare(seq[i], seq[i + 1]) < 0

\* The greatest item of seq strictly less than x, or None.
GreatestBelow(seq, x) ==
    LET below == {it \in Range(seq) : Compare(it, x) < 0} IN
    IF below = {} THEN None
    ELSE CHOOSE it \in below : \A o \in below : Compare(o, it) <= 0

\* The smallest item of seq strictly greater than x, or None.
SmallestAbove(seq, x) ==
    LET above == {it \in Range(seq) : Compare(it, x) > 0} IN
    IF above = {} THEN None
    ELSE CHOOSE it \in above : \A o \in above : Compare(o, it) >= 0

\* The height of the subtree at n, from its shape alone.
RECURSIVE Depth(_, _)
Depth(H, n) ==
    IF n = Nil THEN 0
    ELSE 1 + max(Depth(H, H.mem[n].left), Depth(H, H.mem[n].right))

NodesOf(t) == Range(Reach(heap, t.root, <<>>))

\* C1: after any sequence of Insert, Update and Delete from the empty
\* tree, the in-order traversal is strictly ascending per Compare.
C1_InOrderStrictlyAscending == StrictlyAscending(InOrderItems(Now, tree))

\* A successful Delete on a five-item tree that had been updated before.
C1_Witness ==
    /\ last.op = "Delete" /\ last.ret # None
    /\ Len(last.pre) = 5
    /\ \E i \in DOMAIN last.pre : last.pre[i][2] = "b"
    /\ Len(InOrderItems(Now, tree)) = 4

\* C2: every node of the returned tree has |height(right) - height(left)|
\* <= 1 and a cached h equal to 1 + max of its children's heights, the
\* height of an empty subtree being 0.
C2_BalancedWithExactHeights ==
    \A n \in NodesOf(tree) :
        LET l == Depth(Now, heap[n].left)
            r == Depth(Now, heap[n].right)
        IN  /\ r - l <= 1
            /\ l - r <= 1
            /\ heap[n].h = 1 + max(l, r)
            /\ height(Now, heap[n].left) = l
            /\ height(Now, heap[n].right) = r

\* Deleting the right leaf 5 of 4(2(1,3),5): the root is left-heavy by two
\* with a balanced left child, and three nodes are allocated (the clone of
\* the root and the two clones of the right rotation).
C2_Witness ==
    /\ last.op = "Delete" /\ last.x[1] = 5 /\ last.ret # None
    /\ KeysOf(last.pre) = 1..5
    /\ last.allocs = 3
    /\ [i \in 1..4 |-> PreOrderItems(Now, tree)[i][1]] = <<2, 1, 4, 3>>

\* C3: Size() equals the number of items a full traversal visits.
C3_SizeEqualsTraversalCount ==
    TreeSize(tree) = Len(InOrderItems(Now, tree))

\* C4: Update(x) returns nil exactly when no stored item compared equal to
\* x, and then x is inserted; otherwise it returns the old stored item.
C4_UpdateReturnsPrevious ==
    last.op = "Update" =>
        LET old == StoredIn(last.pre, last.x) IN
        /\ last.ret = old
        /\ old = None => StoredIn(InOrderItems(Now, tree), last.x) = last.x

\* C5: after Update(x) on a tree that stores an item with x's key, Search
\* of that key in the returned tree yields x, wherever the node is.
C5_UpdateReplacesEverywhere ==
    (last.op = "Update" /\ StoredIn(last.pre, last.x) # None)
        => TreeSearch(Now, tree, last.x) = last.x

\* C6: a Tree value held before a modifying call shows the same in-order,
\* pre-order and post-order sequences, Size and Search results ever after,
\* whatever is done to the trees derived from it.
C6_HeldTreeUnchanged == Observe(Now, held) = heldObs

\* A three-item tree is held, and an item with two children has since been
\* deleted from the tree derived from it.
C6_Witness ==
    /\ Len(heldObs.inOrder) = 3
    /\ Len(InOrderItems(Now, tree)) = 2
    /\ heldObs.preOrder[1][1] \notin KeysOf(InOrderItems(Now, tree))
    /\ KeysOf(InOrderItems(Now, tree)) \subseteq KeysOf(heldObs.inOrder)
    /\ NodesOf(tree) \cap NodesOf(held) # {}

\* The calls a short-circuiting traversal makes: the full sequence up to
\* and including the first item on which the visitor returns false.
UpToFirstStop(full, stop) ==
    LET v == NewVisitor(stop) IN
    IF \E i \in DOMAIN full : ~fnResult(v, full[i])
    THEN SubSeq(full, 1, CHOOSE i \in DOMAIN full : ~fnResult(v, full[i]))
    ELSE full

\* C7: once the visitor returns false the traversal stops: the visitor is
\* called for the items up to the first false return and for no other.
C7_TraversalStopsAtFalse ==
    /\ last.op = "InOrder" =>
         last.calls = UpToFirstStop(InOrderItems(Now, tree), last.stop)
    /\ last.op = "PreOrder" =>
         last.calls = UpToFirstStop(PreOrderItems(Now, tree), last.stop)
    /\ last.op = "PostOrder" =>
         last.calls = UpToFirstStop(PostOrderItems(Now, tree), last.stop)

SetMin(S) == CHOOSE k \in S : \A o \in S : k <= o
SetMax(S) == CHOOSE k \in S : \A o \in S : k >= o

\* C8: Insert and Delete beside a reference set of keys: Insert reports an
\* existing item iff the key was in the set, Delete returns the stored item
\* iff it was, Search finds the stored item iff the key is in the set, Min
\* and Max are its least and greatest element, and on the empty set every
\* lookup is empty and Size() is 0.
C8_AgreesWithReferenceSet ==
    /\ KeysOf(InOrderItems(Now, tree)) = refKeys
    /\ last.op \in {"Insert", "Delete"} =>
         /\ last.ret # None <=> last.x[1] \in last.preRef
         /\ last.ret = StoredIn(last.pre, last.x)
    /\ last.op = "Search" =>
         /\ last.ret # None <=> last.x[1] \in refKeys
         /\ last.ret = StoredIn(last.pre, last.x)
    /\ last.op = "Min" =>
         last.ret = IF refKeys = {} THEN None
                    ELSE StoredIn(last.pre, <<SetMin(refKeys), "a">>)
    /\ last.op = "Max" =>
         last.ret = IF refKeys = {} THEN None
                    ELSE StoredIn(last.pre, <<SetMax(refKeys), "a">>)
    /\ refKeys = {} =>
         /\ TreeSize(tree) = 0
         /\ last.op \in {"Search", "Min", "Max", "Predecessor", "Successor"}
              => last.ret = None

\* C9: Predecessor(x) is the greatest stored item strictly less than x and
\* Successor(x) the smallest strictly greater, whether or not x is stored;
\* each is empty exactly when there is no such item.
C9_NeighboursAreTight ==
    /\ last.op = "Predecessor" => last.ret = GreatestBelow(last.pre, last.x)
    /\ last.op = "Successor" => last.ret = SmallestAbove(last.pre, last.x)

\* C10: Insert of a key already present returns the same root without
\* cloning a node, reports the stored item, and leaves the in-order
\* sequence and Size() as they were.
C10_DuplicateInsertChangesNothing ==
    (last.op = "Insert" /\ StoredIn(last.pre, last.x) # None) =>
        /\ last.sameRoot
        /\ last.allocs = 0
        /\ last.dirty = {}
        /\ last.ret # None
        /\ last.ret = StoredIn(last.pre, last.x)
        /\ InOrderItems(Now, tree) = last.pre
        /\ TreeSize(tree) = last.preSize

\* A duplicate, with another payload, of a key two levels below the root.
C10_Witness ==
    /\ last.op = "Insert"
    /\ StoredIn(last.pre, last.x) # None
    /\ StoredIn(last.pre, last.x) # last.x
    /\ Len(last.pre) >= 4
    /\ last.x[1] \notin {heap[tree.root].value[1]}
    /\ \A c \in {heap[tree.root].left, heap[tree.root].right} \ {Nil} :
           heap[c].value[1] # last.x[1]

\* C11: Delete of a key that is not stored returns the original root (the
\* same node, nothing allocated) with an empty removed result, and leaves
\* Size() and the contents as they were.
C11_DeleteAbsentReturnsOriginal ==
    (last.op = "Delete" /\ StoredIn(last.pre, last.x) = None) =>
        /\ last.sameRoot
        /\ last.allocs = 0
        /\ last.ret = None
        /\ TreeSize(tree) = last.preSize
        /\ InOrderItems(Now, tree) = last.pre

\* The absent key lies strictly between stored keys of a tree of at least
\* four items, so the search descends below the root before it fails.
C11_Witness ==
    /\ last.op = "Delete"
    /\ StoredIn(last.pre, last.x) = None
    /\ Len(last.pre) >= 4
    /\ GreatestBelow(last.pre, last.x) # None
    /\ SmallestAbove(last.pre, last.x) # None

\* C12: Delete undoes Insert on contents: when k is not in T, the tree
\* T.Insert(k).Delete(k) has the in-order sequence and the Size() of T,
\* and it is the empty tree (nil root) when T is empty.
C12_DeleteUndoesInsert ==
    last.undoes =>
        /\ InOrderItems(Now, tree) = last.before
        /\ TreeSize(tree) = last.beforeSize
        /\ last.before = <<>> => tree.root = Nil

\* The inserted key became an inner node with two children (a double
\* rotation lifted it), so its removal goes through destroy's two-children
\* case, in a tree of at least four items.
C12_Witness ==
    /\ last.undoes
    /\ Len(last.before) >= 4
    /\ last.allocs >= 2
    /\ GreatestBelow(last.before, last.x) # None
    /\ SmallestAbove(last.before, last.x) # None

\* The <<node, field>> pairs the writer has stored to so far, the fields of
\* the nodes it allocated included.
StoredSoFar ==
    LET done == SubSeq(writer.log, 1, writer.next - 1) IN
    Written(done) \cup
    {<<done[i][1], f>> : i \in {j \in DOMAIN done : done[j][2] = "new"},
                         f \in {"value", "left", "right", "h"}}

\* C13: a reader that runs load by load beside a writer deriving a new tree
\* from the same Tree value returns what it returns with no writer running
\* (same result, same items handed to fn), and it never loads a node field
\* the writer stores to.
C13_ReaderUndisturbed ==
    /\ reader.done =>
         /\ reader.ret = reader.expect.ret
         /\ reader.calls = reader.expect.calls
    /\ reader.reads \cap StoredSoFar = {}

\* A traversal of a two-item tree has finished while a Delete was under way
\* that had already stored to a node of that tree (the height of the child
\* it reuses).
C13_Witness ==
    /\ reader.op = "InOrder" /\ reader.done
    /\ Len(reader.calls) = 2
    /\ writer.op = "Delete"
    /\ \E w \in StoredSoFar : w[1] <= Len(writer.base)
    /\ \E w \in StoredSoFar : \E r \in reader.reads : w[1] = r[1]

\* C14: no Insert, Update or Delete stores to a field (value, left, right
\* or h) of a node that its input tree reaches: every store goes to a node
\* allocated during the call, also when Delete reuses the only child of
\* the node it removes.
C14_NoStoreToInputTree ==
    last.op \in {"Insert", "Update", "Delete"} => last.dirty = {}

\* C15: the fatal branch of rebalance is never reached by Insert, Update
\* and Delete: whenever rebalance sees a balance factor outside -1..1 one
\* of the four rotation cases applies, and every node rebalance returns has
\* a balance factor in -1..1.
C15_FatalBranchUnreachable ==
    last.op \in {"Insert", "Update", "Delete"} =>
        /\ ~last.panic
        /\ ~last.skewed

\* Deleting the left leaf 1 of 2(1,4(3,5)): the root is right-heavy by two
\* and its right child is balanced, the case the >= 0 of the single left
\* rotation takes.
C15_Witness ==
    /\ last.op = "Delete" /\ last.x[1] = 1 /\ last.ret # None
    /\ KeysOf(last.pre) = 1..5
    /\ last.allocs = 3
    /\ [i \in 1..4 |-> PreOrderItems(Now, tree)[i][1]] = <<4, 2, 3, 5>>

\* The rules on shapes.  A shape is <<>> or <<left, value, right>>.
RECURSIVE RuleHeight(_)
RuleHeight(T) ==
    IF T = <<>> THEN 0 ELSE 1 + max(RuleHeight(T[1]), RuleHeight(T[3]))

RuleBalance(T) ==
    IF T = <<>> THEN 0 ELSE RuleHeight(T[3]) - RuleHeight(T[1])

\* The left child comes up, its right subtree goes over to the old root.
RuleRotateRight(T) == <<T[1][1], T[1][2], <<T[1][3], T[2], T[3]>>>>
\* The right child comes up, its left subtree goes over to the old root.
RuleRotateLeft(T) == <<<<T[1], T[2], T[3][1]>>, T[3][2], T[3][3]>>

\* Single right rotation for left-heavy with left child balance <= 0,
\* single left rotation for right-heavy with right child balance >= 0,
\* double rotation otherwise.
RuleRebalance(T) ==
    IF RuleBalance(T) < -1 THEN
        IF RuleBalance(T[1]) <= 0 THEN RuleRotateRight(T)
        ELSE RuleRotateRight(<<RuleRotateLeft(T[1]), T[2], T[3]>>)
    ELSE IF RuleBalance(T) > 1 THEN
        IF RuleBalance(T[3]) >= 0 THEN RuleRotateLeft(T)
        ELSE RuleRotateLeft(<<T[1], T[2], RuleRotateRight(T[3])>>)
    ELSE T

RECURSIVE RuleInsert(_, _)
RuleInsert(T, x) ==
    IF T = <<>> THEN <<<<>>, x, <<>>>>
    ELSE IF Compare(x, T[2]) < 0
         THEN RuleRebalance(<<RuleInsert(T[1], x), T[2], T[3]>>)
    ELSE IF Compare(x, T[2]) > 0
         THEN RuleRebalance(<<T[1], T[2], RuleInsert(T[3], x)>>)
    ELSE T

RECURSIVE RuleMax(_)
RuleMax(T) == IF T[3] = <<>> THEN T[2] ELSE RuleMax(T[3])

\* A matched node with two children takes the maximum of its left subtree
\* as its value and keeps its right subtree; with one child that child
\* takes its place.
RECURSIVE RuleDelete(_, _)
RuleDelete(T, x) ==
    IF T = <<>> THEN T
    ELSE IF Compare(x, T[2]) < 0
         THEN RuleRebalance(<<RuleDelete(T[1], x), T[2], T[3]>>)
    ELSE IF Compare(x, T[2]) > 0
         THEN RuleRebalance(<<T[1], T[2], RuleDelete(T[3], x)>>)
    ELSE IF T[1] # <<>> /\ T[3] # <<>>
         THEN RuleRebalance(<<RuleDelete(T[1], RuleMax(T[1])),
                              RuleMax(T[1]), T[3]>>)
    ELSE IF T[1] # <<>> THEN T[1]
    ELSE T[3]

KeySeq(seq) == [i \in DOMAIN seq |-> seq[i][1]]
Inserted(ks) == [i \in DOMAIN ks |-> <<"Insert", ks[i]>>]

\* C16: the tree after each insertion or deletion has the shape the
\* rebalance rules and the destroy rule prescribe; inserting 1,2,3,4,5
\* gives pre-order 2,1,4,3,5 and post-order 1,3,5,4,2; inserting 5,4,3,2,1
\* gives pre-order 4,2,1,3,5; inserting 3,1,5,2 and deleting 5, and
\* inserting 1,0,3,2 and deleting 0, both give pre-order 2,1,3; and a
\* rotation of any subtree keeps its in-order sequence.
C16_ShapeFollowsRules ==
    /\ last.op = "Insert" =>
         Shape(Now, tree.root) = RuleInsert(last.preShape, last.x)
    /\ last.op = "Delete" =>
         Shape(Now, tree.root) = RuleDelete(last.preShape, last.x)
    /\ last.hist = Inserted(<<1, 2, 3, 4, 5>>) =>
         /\ KeySeq(PreOrderItems(Now, tree)) = <<2, 1, 4, 3, 5>>
         /\ KeySeq(PostOrderItems(Now, tree)) = <<1, 3, 5, 4, 2>>
    /\ last.hist = Inserted(<<5, 4, 3, 2, 1>>) =>
         KeySeq(PreOrderItems(Now, tree)) = <<4, 2, 1, 3, 5>>
    /\ last.hist = Inserted(<<3, 1, 5, 2>>) \o <<<<"Delete", 5>>>> =>
         KeySeq(PreOrderItems(Now, tree)) = <<2, 1, 3>>
    /\ last.hist = Inserted(<<1, 0, 3, 2>>) \o <<<<"Delete", 0>>>> =>
         KeySeq(PreOrderItems(Now, tree)) = <<2, 1, 3>>
    /\ \A n \in NodesOf(tree) :
         /\ heap[n].left # Nil =>
              LET r == rotateRight(Now, n) IN
              InOrder(r.heap, r.ref, NewVisitor(0)).calls
                  = InOrder(Now, n, NewVisitor(0)).calls
         /\ heap[n].right # Nil =>
              LET r == rotateLeft(Now, n) IN
              InOrder(r.heap, r.ref, NewVisitor(0)).calls
                  = InOrder(Now, n, NewVisitor(0)).calls

\* 1,2,3,4,5 have been inserted and 1 deleted: the root 2 was left
\* right-heavy by two with a balanced right child 4(3,5), the single
\* rotation at the '=' of the rule's '>= 0'.
C16_Witness ==
    /\ last.hist = Inserted(<<1, 2, 3, 4, 5>>) \o <<<<"Delete", 1>>>>
    /\ RuleBalance(last.preShape[3]) = 0
    /\ KeySeq(PreOrderItems(Now, tree)) = <<4, 2, 3, 5>>
    /\ last.allocs = 3

\* The tree a writer copied is as it was when it was copied.
BaseUnchanged ==
    \A w \in Writers :
        Shape(Now, writers[w].base.root) = writers[w].baseShape

\* A publication under the second mutex puts the writer's update on top of
\* what was published before: nothing published earlier is lost.
PublishAddsUpdate ==
    \A w \in Writers :
        (second.used /\ writers[w].pc = "publish" /\ writers'[w].pc = "leave")
        => KeysOf(InOrderItems(AsHeap(heap'), tree'))
             = (KeysOf(InOrderItems(Now, tree)) \cup {writers[w].x})
                   \ {writers[w].y}

\* C17: in the publication pattern of the package doc two writers that no
\* second lock serializes can derive from the same base tree and the tree
\* published last then lacks the other writer's update, the base tree
\* staying as it was (the witness); with the second mutex around the whole
\* read-modify-publish section every publication holds all that was
\* published before it together with the writer's own update.
C17_SerializedWritersLoseNothing ==
    []BaseUnchanged /\ [][PublishAddsUpdate]_vars

\* No second mutex: both writers copied the same non-empty base tree, both
\* have published, and the key one of them inserted (and the other did not
\* delete) is not in the published tree; the base tree is as it was.
C17_Witness ==
    /\ ~second.used
    /\ \A w \in Writers : writers[w].pc = "leave"
    /\ writers[1].base = writers[2].base
    /\ writers[1].base.root # Nil
    /\ \E w \in Writers : \E o \in Writers \ {w} :
         /\ writers[w].x # writers[w].y
         /\ writers[w].x # writers[o].y
         /\ writers[w].x \notin KeysOf(InOrderItems(Now, tree))
         /\ writers[w].x \notin KeysOf(InOrderItems(Now, writers[w].base))
    /\ BaseUnchanged

====
